---- MODULE Spec2Model ----
(***************************************************************************)
(* Model of kernrj/local-auth: the password repository and its service     *)
(* (init/webapp/password_manager.py), the web initialisation flow that     *)
(* shares the configuration file with it (init/webapp/app.py), and the     *)
(* RADIUS bridge that asks the provider whether a user may log in          *)
(* (initial-config/radius/scripts/authentik_auth.py), and the bootstrap     *)
(* scripts that configure the provider and hand the bridge its token       *)
(* (init/scripts/configure_authentik.py, configure_radius.py).             *)
(*                                                                         *)
(* A handler is one action.  Its inputs, and the outcome of the file       *)
(* write it makes, are chosen with \E.  What a handler gives back to its   *)
(* caller is recorded in the variable last.                                *)
(***************************************************************************)
EXTENDS Integers, FiniteSets, Sequences, TLC

\* ------------------------------------------------------------- bounds
\* Plaintext secrets are 1..NumPlain.
NumPlain == 2
\* Calls in one run of Spec and of SpecApp.
MaxOps == 2
\* takeOnce calls replayed after an initialize.
MaxTakes == 3

Plaintexts == 1..NumPlain
\* The salts the hasher draws from: a hash it makes never has the salt of
\* the hash it replaces.
Salts == {1, 2}
\* The (service, username) pairs the calls of Spec are made for.
Keys == {<<"database", "authentik">>, <<"ldap", "admin">>, <<"ldap", "readonly">>}
\* The two callers of the race on get_temporary_password.
Threads == {"t1", "t2"}

VARIABLES
  file,        \* /config/system_config.json: [st, top]
  mode,        \* the permissions of that file
  temp,        \* SecurePasswordRepository._temp_passwords
  hasSetter,   \* hasattr(repository, 'set_temporary_password')
  last,        \* the last call and what it gave back
  nops,        \* calls so far
  staged,      \* history: per key ever set, the plaintext set and not yet
               \* taken (0 once taken)
  placed,      \* history: the keys whose cache entry initialize placed
  initScript,  \* /config/init_passwords.sh
  envFile,     \* /config/.env.secure
  flag,        \* /config/.initialized exists
  req,         \* the form posted to /api/initialize and the salts drawn for it
  builder,     \* a ConfigurationBuilder: its config dict, which build() hands
               \* out as it is, and whether build() was called
  pc,          \* per caller: its place in get_temporary_password
  rkey,        \* per caller: the (service, username) it asked for
  rlocal,      \* per caller: the local variable password
  rout,        \* per caller: what the call gave back
  bridge,      \* one run of authentik_auth.py: its input, the requests it
               \* sent, what it wrote to stdout and its exit code
  conf         \* one run of configure_authentik.py: where it is, what its
               \* steps returned, the calls it made and the token file

repo == <<file, temp, hasSetter, last>>
hist == <<staged, placed>>
disk == <<initScript, envFile, flag, req, builder, bridge, conf>>
race == <<pc, rkey, rlocal, rout>>
vars == <<file, mode, temp, hasSetter, last, nops, staged, placed,
          initScript, envFile, flag, req, builder, pc, rkey, rlocal, rout,
          bridge, conf>>

\* ------------------------------------------------------------- values
EmptyFn == [x \in {} |-> 0]

\* A string stored in a file: an Argon2 encoding of (parameters, salt, body),
\* or text.  PasswordHasher() encodes its default parameters, the hasher of
\* app.py the ones it was configured with.
Hash(p, s) == [kind |-> "argon2", salt |-> s, body |-> p, params |-> "default"]
HashConfigured(p, s) ==
  [kind |-> "argon2", salt |-> s, body |-> p, params |-> "m65536t3p4"]
Text(p) == [kind |-> "text", salt |-> 0, body |-> p]
\* A string that is no hash encoding.
Garbage == Text(0)
\* The strings a caller hands to store_password and update_password.
HashStrings == {Hash(p, 1) : p \in Plaintexts} \cup {Garbage}

\* A top-level value of the JSON file.
DictVal(d) == [kind |-> "dict", d |-> d]
StrVal == [kind |-> "str", d |-> EmptyFn]
BoolVal(b) == [kind |-> IF b THEN "true" ELSE "false", d |-> EmptyFn]

NoFile == [st |-> "absent", top |-> EmptyFn]
CorruptFile == [st |-> "corrupt", top |-> EmptyFn]
OkFile(top) == [st |-> "ok", top |-> top]

\* f"{username}_password_hash"
HashKey(u) == u \o "_password_hash"

\* g with key k set to v
Put(g, k, v) == [x \in DOMAIN g \cup {k} |-> IF x = k THEN v ELSE g[x]]
\* g without key k
Del(g, k) == [x \in DOMAIN g \ {k} |-> g[x]]

\* ------------------------------------------------------------- hasher
\* argon2 PasswordHasher.verify(hash, password): the parameters and the
\* salt come from the encoding; a string that is no encoding raises.
\* a verify that takes the parameters of the verifying hasher, not the ones
\* of the encoding
HasherVerifyStrict(h, p) ==
  IF h.kind # "argon2" THEN "InvalidHash"
  ELSE IF h.body = p /\ h.params = "m65536t3p4" THEN "True" ELSE "Mismatch"

HasherVerify(h, p) ==
  IF h.kind # "argon2" THEN "InvalidHash"
  ELSE IF h.body = p THEN "True" ELSE "Mismatch"

\* ------------------------------------------------------------- the file
\* _load_config: {} when the file is absent, json.load otherwise.
LoadRaises(f) == f.st = "corrupt"
LoadConfig(f) == IF f.st = "ok" THEN f.top ELSE EmptyFn

\* _save_config under the outcome io of its write:
\*   "ok"        written
\*   "unchanged" mkdir or open raised
\*   "partial"   open truncated the file, and the write raised or the
\*               process stopped before the write was complete
SaveOutcomes == {"ok", "unchanged", "partial"}
SaveConfig(f, config, io) ==
  CASE io = "ok" -> OkFile(config)
    [] io = "unchanged" -> f
    [] OTHER -> CorruptFile

\* a store_password that keeps a record the key already has
StorePasswordInsertOnly(f, s, u, h, io) ==
  IF LoadRaises(f) THEN [file |-> f, out |-> "JSONDecodeError"]
  ELSE LET c0 == LoadConfig(f)
           c1 == IF s \in DOMAIN c0 THEN c0 ELSE Put(c0, s, DictVal(EmptyFn))
       IN IF c1[s].kind # "dict" THEN [file |-> f, out |-> "TypeError"]
          ELSE LET d == c1[s].d
                   c2 == IF HashKey(u) \in DOMAIN d THEN c1
                         ELSE Put(c1, s, DictVal(Put(d, HashKey(u), h)))
               IN [file |-> SaveConfig(f, c2, io),
                   out |-> IF io = "ok" THEN "ok" ELSE "OSError"]

\* The permissions a call leaves that took the file from f to g: chmod 0o600
\* after a complete write; the ones open gave a file it created ("umask":
\* 0o666 less the umask of the process) when the write did not complete.
ModeAfter(m, f, g) ==
  IF g = f \/ g.st = "absent" THEN m
  ELSE IF g.st = "ok" THEN "0600"
  ELSE IF f.st = "absent" THEN "umask" ELSE m

\* store_password: [file, out]
StorePassword(f, s, u, h, io) ==
  IF LoadRaises(f) THEN [file |-> f, out |-> "JSONDecodeError"]
  ELSE LET c0 == LoadConfig(f)
           c1 == IF s \in DOMAIN c0 THEN c0 ELSE Put(c0, s, DictVal(EmptyFn))
       IN IF c1[s].kind # "dict" THEN [file |-> f, out |-> "TypeError"]
          ELSE LET c2 == Put(c1, s, DictVal(Put(c1[s].d, HashKey(u), h)))
               IN [file |-> SaveConfig(f, c2, io),
                   out |-> IF io = "ok" THEN "ok" ELSE "OSError"]

\* verify_password: "True", "False", or the error it raises
VerifyPassword(f, s, u, p) ==
  IF LoadRaises(f) THEN "JSONDecodeError"
  ELSE LET c == LoadConfig(f)
       IN IF s \notin DOMAIN c THEN "False"
          ELSE IF c[s].kind \in {"true", "false"} THEN "TypeError"
          ELSE IF c[s].kind = "str" THEN "False"
          ELSE IF HashKey(u) \notin DOMAIN c[s].d THEN "False"
          ELSE LET r == HasherVerify(c[s].d[HashKey(u)], p)
               IN IF r = "Mismatch" THEN "False" ELSE r

\* The record the file holds for (s, u): a file that parses, a section s that
\* is an object, and the key of u in it.
HasRecord(f, s, u) ==
  /\ f.st = "ok"
  /\ s \in DOMAIN f.top
  /\ f.top[s].kind = "dict"
  /\ HashKey(u) \in DOMAIN f.top[s].d
Record(f, s, u) == f.top[s].d[HashKey(u)]

\* PasswordHasher().hash draws a salt: one the record of (s, u) does not have
FreshSalt(f, s, u) ==
  IF HasRecord(f, s, u) /\ Record(f, s, u).salt = 1 THEN 2 ELSE 1

\* ------------------------------------------------------------- the cache
CacheHas(t, s, u) == s \in DOMAIN t /\ u \in DOMAIN t[s]

\* set_temporary_password
SetTemporaryPassword(t, s, u, p) ==
  LET t1 == IF s \in DOMAIN t THEN t ELSE Put(t, s, EmptyFn)
  IN Put(t1, s, Put(t1[s], u, p))

\* get_temporary_password: what it returns (0 is None) and the cache it leaves
TakeResult(t, s, u) == IF CacheHas(t, s, u) THEN t[s][u] ELSE 0
\* a get_temporary_password without its del
TakeEffectKeep(t, s, u) == t
TakeEffect(t, s, u) == IF CacheHas(t, s, u) THEN Put(t, s, Del(t[s], u)) ELSE t

\* n get_temporary_password calls in a row for one key: what each returns
RECURSIVE TakeReplay(_, _, _, _)
TakeReplay(t, s, u, n) ==
  IF n = 0 THEN <<>>
  ELSE <<TakeResult(t, s, u)>> \o TakeReplay(TakeEffect(t, s, u), s, u, n - 1)

\* every (service, username, password) of the cache
CacheEntries(t) ==
  UNION {{<<s, u, t[s][u]>> : u \in DOMAIN t[s]} : s \in DOMAIN t}

\* update_password: store_password, then the cache entry is dropped.
\* [file, temp, out]
UpdatePassword(f, t, s, u, h, io) ==
  LET r == StorePassword(f, s, u, h, io)
  IN [file |-> r.file,
      temp |-> IF r.out = "ok" THEN TakeEffect(t, s, u) ELSE t,
      out |-> r.out]

\* ------------------------------------------------------------- the service
\* initialize_service_password: hash, store_password, and, when the
\* repository has the setter, set_temporary_password.  [file, temp, out]
\* an initialize_service_password that stores the hash only
InitializeServicePasswordNoStage(f, t, setter, s, u, p, salt, io) ==
  LET r == StorePassword(f, s, u, Hash(p, salt), io)
  IN [file |-> r.file, temp |-> t, out |-> r.out]

\* an initialize_service_password that sets the plaintext before it stores
InitializeServicePasswordSetFirst(f, t, setter, s, u, p, salt, io) ==
  LET r == StorePassword(f, s, u, Hash(p, salt), io)
  IN [file |-> r.file,
      temp |-> IF setter THEN SetTemporaryPassword(t, s, u, p) ELSE t,
      out |-> r.out]

InitializeServicePassword(f, t, setter, s, u, p, salt, io) ==
  LET r == StorePassword(f, s, u, Hash(p, salt), io)
  IN [file |-> r.file,
      temp |-> IF r.out = "ok" /\ setter
               THEN SetTemporaryPassword(t, s, u, p) ELSE t,
      out |-> r.out]

\* update_service_password: hash, update_password.  [file, temp, out]
UpdateServicePassword(f, t, s, u, p, salt, io) ==
  UpdatePassword(f, t, s, u, Hash(p, salt), io)

\* generate_initialization_script and get_initialization_passwords: the
\* cached plaintexts they give to the caller
ScriptPasswords(t) == CacheEntries(t)
InitializationPasswords(t) == CacheEntries(t)

\* ------------------------------------------------------------- calls
\* A call as recorded: its name, its arguments (h: the hash string given, pw:
\* the plaintext given or, for get_temporary_password, returned; 0 is None),
\* how it ended, and the cached plaintexts it gave to its caller.
Call(op, s, u, h, p, out, handed) ==
  [op |-> op, svc |-> s, usr |-> u, h |-> h, pw |-> p, out |-> out,
   handed |-> handed]

NoCall == Call("none", "", "", Garbage, 0, "", {})

StorePasswordCall(s, u, h, io) ==
  LET r == StorePassword(file, s, u, h, io)
  IN /\ file' = r.file
     /\ last' = Call("store_password", s, u, h, 0, r.out, {})
     /\ UNCHANGED <<temp, hasSetter>>

VerifyPasswordCall(s, u, p) ==
  /\ last' = Call("verify_password", s, u, Garbage, p,
                  VerifyPassword(file, s, u, p), {})
  /\ UNCHANGED <<file, temp, hasSetter>>

UpdatePasswordCall(s, u, h, io) ==
  LET r == UpdatePassword(file, temp, s, u, h, io)
  IN /\ file' = r.file
     /\ temp' = r.temp
     /\ last' = Call("update_password", s, u, h, 0, r.out, {})
     /\ UNCHANGED hasSetter

SetTemporaryPasswordCall(s, u, p) ==
  /\ hasSetter
  /\ temp' = SetTemporaryPassword(temp, s, u, p)
  /\ last' = Call("set_temporary_password", s, u, Garbage, p, "ok", {})
  /\ UNCHANGED <<file, hasSetter>>

GetTemporaryPasswordCall(s, u) ==
  LET p == TakeResult(temp, s, u)
  IN /\ temp' = TakeEffect(temp, s, u)
     /\ last' = Call("get_temporary_password", s, u, Garbage, p,
                     IF p = 0 THEN "None" ELSE "value",
                     IF p = 0 THEN {} ELSE {<<s, u, p>>})
     /\ UNCHANGED <<file, hasSetter>>

GenerateInitializationScriptCall ==
  /\ hasSetter
  /\ last' = Call("generate_initialization_script", "", "", Garbage, 0, "ok",
                  ScriptPasswords(temp))
  /\ UNCHANGED <<file, temp, hasSetter>>

GetInitializationPasswordsCall ==
  /\ last' = Call("get_initialization_passwords", "", "", Garbage, 0, "ok",
                  IF hasSetter THEN InitializationPasswords(temp) ELSE {})
  /\ UNCHANGED <<file, temp, hasSetter>>

InitializeServicePasswordCall(s, u, p, salt, io) ==
  LET r == InitializeServicePassword(file, temp, hasSetter, s, u, p, salt, io)
  IN /\ file' = r.file
     /\ temp' = r.temp
     /\ last' = Call("initialize_service_password", s, u, Hash(p, salt), p,
                     r.out, {})
     /\ UNCHANGED hasSetter

UpdateServicePasswordCall(s, u, p, salt, io) ==
  LET r == UpdateServicePassword(file, temp, s, u, p, salt, io)
  IN /\ file' = r.file
     /\ temp' = r.temp
     /\ last' = Call("update_service_password", s, u, Hash(p, salt), p, r.out, {})
     /\ UNCHANGED hasSetter

\* The records the logger of password_manager.py got during the call c on a
\* repository with or without the setter: set_temporary_password is the one
\* function that logs, and initialize_service_password reaches it once the
\* hash is stored.
Logged(c, setter) ==
  IF \/ c.op = "set_temporary_password"
     \/ c.op = "initialize_service_password" /\ c.out = "ok" /\ setter
    THEN {[level |-> "INFO",
           message |-> <<"Temporary password set for ", c.svc, "/", c.usr>>]}
    ELSE {}

\* ------------------------------------------------------------- Spec
\* The repository and the service on it: MaxOps calls from a fresh start.
RaceIdle ==
  /\ pc = [t \in Threads |-> "idle"]
  /\ rkey = [t \in Threads |-> <<"", "">>]
  /\ rlocal = [t \in Threads |-> 0]
  /\ rout = [t \in Threads |-> "none"]

\* no ConfigurationBuilder between two requests
NoBuilder == [config |-> EmptyFn, built |-> FALSE]

NoRequest == [form |-> EmptyFn, sb |-> 0, ss |-> 0]

\* Python's None where authentik_auth.py expects the user's dict
None == [none |-> TRUE]

\* authentik_auth.py before it read anything
NotStarted ==
  [pc |-> "main", stream |-> <<>>, username |-> "", password |-> 0,
   sent |-> <<>>, success |-> FALSE, userData |-> None, out |-> <<>>,
   code |-> -1, crashed |-> FALSE, saved |-> "none", radiusEnv |-> "absent"]

\* configure_authentik.py before run(): no token, no token file
NotConfigured ==
  [pc |-> "wait", tempPassword |-> FALSE, admin |-> "none", token |-> "",
   tokenFile |-> "absent", ldap |-> "none", radius |-> "none",
   result |-> "none", calls |-> <<>>]

Fresh ==
  /\ file = NoFile
  /\ mode = "none"
  /\ temp = EmptyFn
  /\ hasSetter \in BOOLEAN
  /\ last = NoCall
  /\ nops = 0
  /\ staged = EmptyFn
  /\ placed = {}
  /\ initScript = NoFile
  /\ envFile = NoFile
  /\ flag = FALSE
  /\ builder = NoBuilder
  /\ bridge = NotStarted
  /\ conf = NotConfigured
  /\ RaceIdle

Init == Fresh /\ req = NoRequest

\* placed after the call recorded in c: initialize places an entry; a set, a
\* take and a completed update replace or remove it.
PlacedAfter(pl, c, setter) ==
  LET k == <<c.svc, c.usr>>
  IN CASE c.op = "initialize_service_password" /\ c.out = "ok" /\ setter
            -> pl \cup {k}
       [] c.op \in {"set_temporary_password", "get_temporary_password"}
            -> pl \ {k}
       [] c.op \in {"update_password", "update_service_password"}
          /\ c.out = "ok"
            -> pl \ {k}
       [] OTHER -> pl

\* One more call, and what every call of Spec leaves alone.
CanCall == nops < MaxOps

Counted ==
  /\ nops' = nops + 1
  /\ placed' = PlacedAfter(placed, last', hasSetter)
  /\ UNCHANGED <<staged, race>>

Framed ==
  /\ Counted
  /\ mode' = ModeAfter(mode, file, file')
  /\ UNCHANGED disk

DoStorePassword ==
  /\ CanCall
  /\ \E k \in Keys, h \in HashStrings, io \in SaveOutcomes :
       StorePasswordCall(k[1], k[2], h, io) /\ Framed

DoVerifyPassword ==
  /\ CanCall
  /\ \E k \in Keys, p \in Plaintexts :
       VerifyPasswordCall(k[1], k[2], p) /\ Framed

DoUpdatePassword ==
  /\ CanCall
  /\ \E k \in Keys, h \in HashStrings, io \in SaveOutcomes :
       UpdatePasswordCall(k[1], k[2], h, io) /\ Framed

DoSetTemporaryPassword ==
  /\ CanCall
  /\ \E k \in Keys, p \in Plaintexts :
       SetTemporaryPasswordCall(k[1], k[2], p) /\ Framed

DoGetTemporaryPassword ==
  /\ CanCall
  /\ \E k \in Keys : GetTemporaryPasswordCall(k[1], k[2]) /\ Framed

DoGenerateInitializationScript ==
  CanCall /\ GenerateInitializationScriptCall /\ Framed

DoGetInitializationPasswords ==
  CanCall /\ GetInitializationPasswordsCall /\ Framed

DoInitializeServicePassword ==
  /\ CanCall
  /\ \E k \in Keys, p \in Plaintexts, io \in SaveOutcomes :
       /\ InitializeServicePasswordCall(k[1], k[2], p,
                                        FreshSalt(file, k[1], k[2]), io)
       /\ Framed

DoUpdateServicePassword ==
  /\ CanCall
  /\ \E k \in Keys, p \in Plaintexts, io \in SaveOutcomes :
       /\ UpdateServicePasswordCall(k[1], k[2], p,
                                    FreshSalt(file, k[1], k[2]), io)
       /\ Framed

Next ==
  \/ DoStorePassword
  \/ DoVerifyPassword
  \/ DoUpdatePassword
  \/ DoSetTemporaryPassword
  \/ DoGetTemporaryPassword
  \/ DoGenerateInitializationScript
  \/ DoGetInitializationPasswords
  \/ DoInitializeServicePassword
  \/ DoUpdateServicePassword

Spec == Init /\ [][Next]_vars

\* ------------------------------------------------------------- SpecCache
\* set_temporary_password and get_temporary_password alone, in any order.
StagedOf(st, k) == IF k \in DOMAIN st THEN st[k] ELSE 0

CacheSet ==
  \E k \in Keys, p \in Plaintexts :
    /\ SetTemporaryPasswordCall(k[1], k[2], p)
    /\ staged' = Put(staged, k, p)
    /\ UNCHANGED <<mode, nops, placed, disk, race>>

CacheTake ==
  \E k \in Keys :
    /\ GetTemporaryPasswordCall(k[1], k[2])
    /\ staged' = IF k \in DOMAIN staged THEN Put(staged, k, 0) ELSE staged
    /\ UNCHANGED <<mode, nops, placed, disk, race>>

InitCache == Init /\ hasSetter

NextCache == CacheSet \/ CacheTake

SpecCache == InitCache /\ [][NextCache]_vars

\* ------------------------------------------------------------- SpecRace
\* Two callers inside get_temporary_password at once, one statement a step.
RaceSet ==
  \E k \in Keys, p \in Plaintexts :
    /\ temp = EmptyFn
    /\ \A t \in Threads : pc[t] = "idle" /\ rout[t] = "none"
    /\ temp' = SetTemporaryPassword(temp, k[1], k[2], p)
    /\ last' = Call("set_temporary_password", k[1], k[2], Garbage, p, "ok", {})
    /\ UNCHANGED <<pc, rkey, rlocal, rout>>
    /\ UNCHANGED <<file, mode, hasSetter, nops, hist, disk>>

RaceCall(t) ==
  \E k \in Keys :
    /\ pc[t] = "idle" /\ rout[t] = "none"
    /\ pc' = [pc EXCEPT ![t] = "check_service"]
    /\ rkey' = [rkey EXCEPT ![t] = k]
    /\ UNCHANGED <<temp, last, rlocal, rout>>
    /\ UNCHANGED <<file, mode, hasSetter, nops, hist, disk>>

\* if service in self._temp_passwords:
RaceCheckService(t) ==
  /\ pc[t] = "check_service"
  /\ pc' = [pc EXCEPT ![t] = IF rkey[t][1] \in DOMAIN temp
                             THEN "check_user" ELSE "return_none"]
  /\ UNCHANGED <<temp, last, rkey, rlocal, rout>>
  /\ UNCHANGED <<file, mode, hasSetter, nops, hist, disk>>

\* if username in self._temp_passwords[service]:
RaceCheckUser(t) ==
  /\ pc[t] = "check_user"
  /\ pc' = [pc EXCEPT ![t] = IF rkey[t][2] \in DOMAIN temp[rkey[t][1]]
                             THEN "read" ELSE "return_none"]
  /\ UNCHANGED <<temp, last, rkey, rlocal, rout>>
  /\ UNCHANGED <<file, mode, hasSetter, nops, hist, disk>>

\* password = self._temp_passwords[service][username]
RaceRead(t) ==
  /\ pc[t] = "read"
  /\ IF CacheHas(temp, rkey[t][1], rkey[t][2])
     THEN /\ rlocal' = [rlocal EXCEPT ![t] = temp[rkey[t][1]][rkey[t][2]]]
          /\ pc' = [pc EXCEPT ![t] = "del"]
          /\ UNCHANGED rout
     ELSE /\ rout' = [rout EXCEPT ![t] = "KeyError"]
          /\ pc' = [pc EXCEPT ![t] = "done"]
          /\ UNCHANGED rlocal
  /\ UNCHANGED <<temp, last, rkey>>
  /\ UNCHANGED <<file, mode, hasSetter, nops, hist, disk>>

\* del self._temp_passwords[service][username]
RaceDel(t) ==
  /\ pc[t] = "del"
  /\ IF CacheHas(temp, rkey[t][1], rkey[t][2])
     THEN /\ temp' = TakeEffect(temp, rkey[t][1], rkey[t][2])
          /\ pc' = [pc EXCEPT ![t] = "return"]
          /\ UNCHANGED rout
     ELSE /\ rout' = [rout EXCEPT ![t] = "KeyError"]
          /\ pc' = [pc EXCEPT ![t] = "done"]
          /\ UNCHANGED temp
  /\ UNCHANGED <<last, rkey, rlocal>>
  /\ UNCHANGED <<file, mode, hasSetter, nops, hist, disk>>

\* return password / return None
RaceReturn(t) ==
  /\ pc[t] \in {"return", "return_none"}
  /\ rout' = [rout EXCEPT ![t] = IF pc[t] = "return" THEN "value" ELSE "None"]
  /\ pc' = [pc EXCEPT ![t] = "done"]
  /\ UNCHANGED <<temp, last, rkey, rlocal>>
  /\ UNCHANGED <<file, mode, hasSetter, nops, hist, disk>>

InitRace == Init /\ hasSetter

NextRace ==
  \/ RaceSet
  \/ \E t \in Threads : RaceCall(t)
  \/ \E t \in Threads : RaceCheckService(t)
  \/ \E t \in Threads : RaceCheckUser(t)
  \/ \E t \in Threads : RaceRead(t)
  \/ \E t \in Threads : RaceDel(t)
  \/ \E t \in Threads : RaceReturn(t)

SpecRace == InitRace /\ [][NextRace]_vars

\* ------------------------------------------------------------- SpecStore
\* Two callers inside store_password at once, and a reader: one statement a
\* step, _save_config as its open, its json.dump and its chmod.
StoreFrame == UNCHANGED <<temp, hasSetter, nops, hist, disk>>

StoreCall(t) ==
  \E k \in Keys, h \in HashStrings :
    /\ pc[t] = "idle"
    /\ pc' = [pc EXCEPT ![t] = "load"]
    /\ rkey' = [rkey EXCEPT ![t] = k]
    /\ rlocal' = [rlocal EXCEPT ![t] = [h |-> h, config |-> EmptyFn]]
    /\ UNCHANGED <<file, mode, last, rout>>
    /\ StoreFrame

\* config = self._load_config()
StoreLoad(t) ==
  /\ pc[t] = "load"
  /\ IF LoadRaises(file)
     THEN /\ rout' = [rout EXCEPT ![t] = "JSONDecodeError"]
          /\ pc' = [pc EXCEPT ![t] = "done"]
          /\ UNCHANGED rlocal
     ELSE /\ rlocal' = [rlocal EXCEPT ![t].config = LoadConfig(file)]
          /\ pc' = [pc EXCEPT ![t] = "mutate"]
          /\ UNCHANGED rout
  /\ UNCHANGED <<file, mode, last, rkey>>
  /\ StoreFrame

\* config[service][f"{username}_password_hash"] = password_hash
StoreMutate(t) ==
  /\ pc[t] = "mutate"
  /\ LET c0 == rlocal[t].config
         sv == rkey[t][1]
         c1 == IF sv \in DOMAIN c0 THEN c0 ELSE Put(c0, sv, DictVal(EmptyFn))
     IN rlocal' = [rlocal EXCEPT ![t].config =
                     Put(c1, sv, DictVal(Put(c1[sv].d, HashKey(rkey[t][2]),
                                             rlocal[t].h)))]
  /\ pc' = [pc EXCEPT ![t] = "open"]
  /\ UNCHANGED <<file, mode, last, rkey, rout>>
  /\ StoreFrame

\* open(self.config_path, 'w'): the file is there and empty
StoreOpen(t) ==
  /\ pc[t] = "open"
  /\ file' = CorruptFile
  /\ mode' = IF file.st = "absent" THEN "umask" ELSE mode
  /\ pc' = [pc EXCEPT ![t] = "dump"]
  /\ UNCHANGED <<last, rkey, rlocal, rout>>
  /\ StoreFrame

\* json.dump(config, f): the document, from the start of the file.  Over a
\* document the other caller wrote since this one's open, it leaves its own
\* or, when the other one is longer, its own with the other's tail.
StoreDump(t) ==
  /\ pc[t] = "dump"
  /\ \/ file' = OkFile(rlocal[t].config)
     \/ file.st = "ok" /\ file.top # rlocal[t].config /\ file' = CorruptFile
  /\ pc' = [pc EXCEPT ![t] = "chmod"]
  /\ UNCHANGED <<mode, last, rkey, rlocal, rout>>
  /\ StoreFrame

\* os.chmod(self.config_path, 0o600)
StoreChmod(t) ==
  /\ pc[t] = "chmod"
  /\ mode' = "0600"
  /\ rout' = [rout EXCEPT ![t] = "ok"]
  /\ pc' = [pc EXCEPT ![t] = "done"]
  /\ UNCHANGED <<file, last, rkey, rlocal>>
  /\ StoreFrame

\* verify_password by a third caller, between any two steps
StoreVerify ==
  \E k \in Keys, p \in Plaintexts :
    /\ VerifyPasswordCall(k[1], k[2], p)
    /\ UNCHANGED <<mode, race>>
    /\ UNCHANGED <<nops, hist, disk>>

InitStore == Init /\ hasSetter

NextStore ==
  \/ \E t \in Threads : StoreCall(t)
  \/ \E t \in Threads : StoreLoad(t)
  \/ \E t \in Threads : StoreMutate(t)
  \/ \E t \in Threads : StoreOpen(t)
  \/ \E t \in Threads : StoreDump(t)
  \/ \E t \in Threads : StoreChmod(t)
  \/ StoreVerify

SpecStore == InitStore /\ [][NextStore]_vars

\* ------------------------------------------------------------- SpecApp
\* POST /api/initialize of app.py, on the file the repository shares with it.
MinAdminPasswordLen == 12

\* Secrets that are no form password: a password too short for the admin, the
\* generated Authentik secret key, API token and RADIUS secret.
ShortPw == NumPlain + 1
SecretKey == NumPlain + 2
ApiToken == NumPlain + 3
RadiusSecret == NumPlain + 4
PwLen(p) == IF p = ShortPw THEN 8 ELSE 16

AppKeys == <<(<<"database", "authentik">>), (<<"ldap", "admin">>),
             (<<"ldap", "readonly">>), (<<"authentik", "admin">>)>>

\* request.json; 0 is a missing or empty field
Form(email, admin, confirm, db, la, lr) ==
  [admin_email |-> email, admin_password |-> admin,
   admin_password_confirm |-> confirm, db_password |-> db,
   ldap_admin_password |-> la, ldap_readonly_password |-> lr]

ValidForms ==
  {Form(1, a, a, d, la, lr) : a \in Plaintexts, d \in Plaintexts,
                              la \in Plaintexts, lr \in Plaintexts}
Forms ==
  ValidForms \cup {Form(1, 1, 1, 0, 1, 1), Form(1, 1, 2, 1, 1, 1),
                   Form(1, ShortPw, ShortPw, 1, 1, 1)}

\* the checks of the form: "" when it passes
Validate(form) ==
  IF \/ form.admin_email = 0 \/ form.admin_password = 0
     \/ form.admin_password_confirm = 0 \/ form.db_password = 0
     \/ form.ldap_admin_password = 0 \/ form.ldap_readonly_password = 0
  THEN "400 missing field"
  ELSE IF form.admin_password # form.admin_password_confirm
  THEN "400 passwords do not match"
  ELSE IF PwLen(form.admin_password) < MinAdminPasswordLen
  THEN "400 password too short"
  ELSE ""

Field1(k, v) == [x \in {k} |-> v]
Fields(keys, special) ==
  [x \in keys \cup DOMAIN special |->
     IF x \in DOMAIN special THEN special[x] ELSE Text(0)]

\* ConfigurationBuilder.__init__: self.config
BuilderConfig ==
  [x \in {"version", "security", "services", "initialized"} |->
     CASE x = "version" -> StrVal
       [] x = "initialized" -> BoolVal(FALSE)
       [] OTHER -> DictVal(EmptyFn)]

\* The setters and build(), on the config dict c.
SetAdminCredentials(c, pw, salt) ==
  Put(c, "admin",
      DictVal(Fields({"email"},
                     Field1("password_hash", HashConfigured(pw, salt)))))

SetDatabaseCredentials(c, pw, salt) ==
  Put(c, "database",
      DictVal(Fields({"username", "database", "host", "port"},
                     Field1("password_hash", HashConfigured(pw, salt)))))

SetLdapConfiguration(c, adminPw, readonlyPw, salt) ==
  Put(c, "ldap",
      DictVal(Fields({"base_dn", "host", "port"},
                     Put(Field1("admin_password_hash",
                                HashConfigured(adminPw, salt)),
                         "readonly_password_hash",
                         HashConfigured(readonlyPw, salt)))))

SetRadiusConfiguration(c, secret, salt) ==
  Put(c, "radius",
      DictVal(Fields({"clients"},
                     Field1("shared_secret_hash",
                            HashConfigured(secret, salt)))))

SetSecurityKeys(c, secret) ==
  Put(c, "security",
      DictVal(Put(Field1("authentik_secret_key", Text(secret)),
                  "api_token", Text(ApiToken))))

Build(c) == Put(c, "initialized", BoolVal(TRUE))

\* ConfigurationBuilder: the setters of the chain, then build()
BuildConfiguration(form, salt) ==
  Build(SetSecurityKeys(
          SetRadiusConfiguration(
            SetLdapConfiguration(
              SetDatabaseCredentials(
                SetAdminCredentials(BuilderConfig, form.admin_password, salt),
                form.db_password, salt),
              form.ldap_admin_password, form.ldap_readonly_password, salt),
            RadiusSecret, salt),
          SecretKey))

\* generate_environment_file: the lines of .env.secure
EnvironmentFile(form) ==
  Fields({"PG_USER", "PG_DB", "ADMIN_EMAIL", "LDAP_BASE_DN"},
         Field1("AUTHENTIK_SECRET_KEY", Text(SecretKey)))

\* init_passwords of initialize, as save_initialization_passwords writes it
InitPasswordsScript(form) ==
  [x \in {"DB_INIT_PASSWORD", "LDAP_ADMIN_INIT_PASSWORD",
          "LDAP_READONLY_INIT_PASSWORD", "ADMIN_INIT_PASSWORD"} |->
     CASE x = "DB_INIT_PASSWORD" -> Text(form.db_password)
       [] x = "LDAP_ADMIN_INIT_PASSWORD" -> Text(form.ldap_admin_password)
       [] x = "LDAP_READONLY_INIT_PASSWORD" -> Text(form.ldap_readonly_password)
       [] OTHER -> Text(form.admin_password)]

\* the password initialize hands to its i-th initialize_service_password
InitPassword(form, i) ==
  CASE i = 1 -> form.db_password
    [] i = 2 -> form.ldap_admin_password
    [] i = 3 -> form.ldap_readonly_password
    [] OTHER -> form.admin_password

\* The steps of initialize after the checks: 1 save_configuration,
\* 2 generate_environment_file, 3 save_initialization_passwords,
\* 4..7 initialize_service_password, 8 mark_initialized.
NoFault == [step |-> 0, io |-> "ok"]
Faults ==
  {NoFault} \cup [step : 1..7, io : {"unchanged", "partial"}]
            \cup {[step |-> 8, io |-> "unchanged"]}
IoAt(fault, n) == IF fault.step = n THEN fault.io ELSE "ok"

\* Step n on st = [file, temp, script, env, flag, err]; a step after the one
\* that raised does not run.
InitializeStep(st, n, form, sb, ss, fault) ==
  IF st.err # "" THEN st
  ELSE LET io == IoAt(fault, n)
           raised == IF io = "ok" THEN "" ELSE "500"
       IN CASE n = 1 ->
                 [st EXCEPT !.file = SaveConfig(st.file,
                                       BuildConfiguration(form, sb), io),
                            !.err = raised]
            [] n = 2 ->
                 [st EXCEPT !.env = SaveConfig(st.env,
                                      EnvironmentFile(form), io),
                            !.err = raised]
            [] n = 3 ->
                 [st EXCEPT !.script = SaveConfig(st.script,
                                         InitPasswordsScript(form), io),
                            !.err = raised]
            [] n = 8 ->
                 [st EXCEPT !.flag = (io = "ok") \/ st.flag,
                            !.err = raised]
            [] OTHER ->
                 LET k == AppKeys[n - 3]
                 IN \* the set binds r to a value, computed once
                    CHOOSE x \in
                      {[st EXCEPT !.file = r.file, !.temp = r.temp,
                                  !.err = IF r.out = "ok" THEN "" ELSE "500"] :
                       r \in {InitializeServicePassword(st.file, st.temp, TRUE,
                                k[1], k[2], InitPassword(form, n - 3), ss,
                                io)}} : TRUE

\* Steps n..8 from each state of sts (a set, so that each step is computed
\* once from the value the step before it left).
RECURSIVE InitializeSteps(_, _, _, _, _, _)
InitializeSteps(sts, n, form, sb, ss, fault) ==
  IF n > 8 THEN sts
  ELSE InitializeSteps({InitializeStep(st, n, form, sb, ss, fault) : st \in sts},
                       n + 1, form, sb, ss, fault)

\* initialize: [file, temp, script, env, flag, err]; err "" is the 200 answer
ApiInitialize(f, t, scr, env, flg, form, sb, ss, fault) ==
  LET st == [file |-> f, temp |-> t, script |-> scr, env |-> env,
             flag |-> flg, err |-> ""]
  IN IF flg THEN [st EXCEPT !.err = "400 already initialized"]
     ELSE IF Validate(form) # "" THEN [st EXCEPT !.err = Validate(form)]
     ELSE CHOOSE x \in InitializeSteps({st}, 1, form, sb, ss, fault) : TRUE

AppCounted ==
  /\ nops' = nops + 1
  /\ mode' = ModeAfter(mode, file, file')
  /\ UNCHANGED <<hasSetter, hist, race, req, builder, bridge, conf>>

\* One POST of the form req.form; a client that gets an error posts it again.
DoApiInitialize ==
  /\ CanCall
  /\ \E fault \in Faults :
       \E r \in {ApiInitialize(file, temp, initScript, envFile, flag,
                              req.form, req.sb, req.ss, fault)} :
          /\ file' = r.file
          /\ temp' = r.temp
          /\ initScript' = r.script
          /\ envFile' = r.env
          /\ flag' = r.flag
          /\ last' = Call("api_initialize", "", "", Garbage, 0,
                          IF r.err = "" THEN "200" ELSE r.err, {})
          /\ AppCounted

\* verify_password as SpecApp calls it: for a service of the bootstrap and for
\* "initialized", a name that is a key of the file and no service.
AppServices == {"ldap", "initialized"}

DoAppVerifyPassword ==
  /\ CanCall
  /\ \E s \in AppServices, p \in Plaintexts :
       /\ VerifyPasswordCall(s, "admin", p)
       /\ AppCounted
       /\ UNCHANGED <<initScript, envFile, flag>>

InitApp ==
  /\ Fresh
  /\ hasSetter
  /\ \E form \in Forms, sb \in Salts :
       req = [form |-> form, sb |-> sb, ss |-> CHOOSE x \in Salts : x # sb]

NextApp == DoApiInitialize \/ DoAppVerifyPassword

SpecApp == InitApp /\ [][NextApp]_vars

\* ------------------------------------------------------------- SpecInitialize
\* Two POSTs of the form req.form handled at once, each by a thread of the
\* server: the test of the flag is one step, the rest of the handler another.
InitializeCheck(t) ==
  /\ pc[t] = "idle"
  /\ pc' = [pc EXCEPT ![t] = IF flag THEN "done" ELSE "checked"]
  /\ rout' = [rout EXCEPT ![t] = IF flag THEN "400 already initialized" ELSE @]
  /\ UNCHANGED <<file, mode, temp, hasSetter, last, nops, hist, disk, rkey,
                 rlocal>>

\* the handler after the test: the checks of the form, the files, the four
\* passwords and the flag; touch() leaves a flag that exists
InitializeRun(t) ==
  /\ pc[t] = "checked"
  /\ \E fault \in Faults :
       \E r \in {ApiInitialize(file, temp, initScript, envFile, FALSE,
                              req.form, req.sb, req.ss, fault)} :
          /\ file' = r.file
          /\ temp' = r.temp
          /\ initScript' = r.script
          /\ envFile' = r.env
          /\ flag' = (flag \/ r.flag)
          /\ last' = Call("api_initialize", "", "", Garbage, 0,
                          IF r.err = "" THEN "200" ELSE r.err, {})
          /\ rout' = [rout EXCEPT ![t] = IF r.err = "" THEN "200" ELSE r.err]
  /\ pc' = [pc EXCEPT ![t] = "done"]
  /\ mode' = ModeAfter(mode, file, file')
  /\ UNCHANGED <<hasSetter, nops, hist, req, builder, bridge, conf, rkey,
                 rlocal>>

NextInitialize ==
  \/ \E t \in Threads : InitializeCheck(t)
  \/ \E t \in Threads : InitializeRun(t)

SpecInitialize == InitApp /\ [][NextInitialize]_vars

\* ------------------------------------------------------------- SpecBuilder
\* One ConfigurationBuilder and the calls a holder of it can make, in any
\* order.
BuilderFrame ==
  UNCHANGED <<file, mode, temp, hasSetter, nops, hist, initScript, envFile,
              flag, req, race, bridge, conf>>

BuilderCall(op, config, built) ==
  /\ builder' = [config |-> config, built |-> built]
  /\ last' = Call(op, "", "", Garbage, 0, "ok", {})
  /\ BuilderFrame

NewBuilder ==
  /\ builder = NoBuilder
  /\ BuilderCall("ConfigurationBuilder", BuilderConfig, FALSE)

Alive == builder # NoBuilder

DoSetAdminCredentials ==
  /\ Alive
  /\ \E pw \in Plaintexts, salt \in Salts :
       BuilderCall("set_admin_credentials",
                   SetAdminCredentials(builder.config, pw, salt), builder.built)

DoSetDatabaseCredentials ==
  /\ Alive
  /\ \E pw \in Plaintexts, salt \in Salts :
       BuilderCall("set_database_credentials",
                   SetDatabaseCredentials(builder.config, pw, salt),
                   builder.built)

DoSetLdapConfiguration ==
  /\ Alive
  /\ \E a \in Plaintexts, r \in Plaintexts, salt \in Salts :
       BuilderCall("set_ldap_configuration",
                   SetLdapConfiguration(builder.config, a, r, salt),
                   builder.built)

DoSetRadiusConfiguration ==
  /\ Alive
  /\ \E salt \in Salts :
       BuilderCall("set_radius_configuration",
                   SetRadiusConfiguration(builder.config, RadiusSecret, salt),
                   builder.built)

DoSetSecurityKeys ==
  /\ Alive
  /\ BuilderCall("set_security_keys",
                 SetSecurityKeys(builder.config, SecretKey), builder.built)

DoBuild ==
  /\ Alive
  /\ BuilderCall("build", Build(builder.config), TRUE)

InitBuilder == Init /\ hasSetter

NextBuilder ==
  \/ NewBuilder
  \/ DoSetAdminCredentials
  \/ DoSetDatabaseCredentials
  \/ DoSetLdapConfiguration
  \/ DoSetRadiusConfiguration
  \/ DoSetSecurityKeys
  \/ DoBuild

SpecBuilder == InitBuilder /\ [][NextBuilder]_vars

\* ------------------------------------------------------------- RADIUS bridge
\* One run of authentik_auth.py.  FreeRADIUS writes the request's attributes
\* to its stdin, one per line, and reads stdout and the exit code.  The
\* provider's answer to each request is chosen with \E.
\* A line of stdin: key=value, the value in quotes or not, or a line without
\* an equals sign (a blank line, a line cut short).
Lines ==
  {[eq |-> TRUE, key |-> "User-Name", name |-> u, pw |-> 0, quoted |-> q] :
     u \in {"jdoe", ""}, q \in BOOLEAN}
    \cup
  {[eq |-> TRUE, key |-> "User-Password", name |-> "", pw |-> p, quoted |-> q] :
     p \in Plaintexts \cup {0}, q \in BOOLEAN}
    \cup
  {[eq |-> FALSE, key |-> "", name |-> "", pw |-> 0, quoted |-> FALSE]}

\* Lines on stdin in one run.
MaxLines == 2

Streams == UNION {[1..n -> Lines] : n \in 0..MaxLines}

\* the loop over sys.stdin: the dict attributes, a later line of a key
\* replacing an earlier one
RECURSIVE ReadAttributes(_, _)
ReadAttributes(stream, attributes) ==
  IF stream = <<>> THEN attributes
  ELSE ReadAttributes(Tail(stream),
         IF Head(stream).eq
           THEN Put(attributes, Head(stream).key, Head(stream))
           ELSE attributes)

\* attributes.get('User-Name', '').strip('"'): "" when the key is missing
UserNameOf(attributes) ==
  IF "User-Name" \in DOMAIN attributes THEN attributes["User-Name"].name ELSE ""

\* attributes.get('User-Password', '').strip('"'): 0 is the empty string
UserPasswordOf(attributes) ==
  IF "User-Password" \in DOMAIN attributes
    THEN attributes["User-Password"].pw ELSE 0

\* main stops before any request when the user name is empty, whatever the
\* password
MissingInputNameOnly(username, password) == username = ""

\* not username or not password
MissingInput(username, password) == username = "" \/ password = 0

\* What the provider does with a request: a status, a connection that fails
\* (requests raises), or no answer at all.
Answers == {"200", "403", "error", "none"}

\* the groups of a user in the provider's answer: objects with a name,
\* an object without one, or the groups' keys instead of objects
Named(n) == [kind |-> "object", some |-> TRUE, name |-> n]

GroupLists ==
  {<<>>, <<Named("users")>>, <<Named("users"), Named("vpn-users")>>,
   <<Named("vpn-users"), Named("users")>>,
   <<Named("users"), [kind |-> "object", some |-> FALSE, name |-> ""]>>,
   <<[kind |-> "pk", some |-> FALSE, name |-> ""]>>}

\* the records of /core/users/: is_active true, false, or not in the record
UserRecords ==
  {[is_active |-> a, groups |-> g] : a \in {"true", "false", "absent"},
                                      g \in GroupLists}

\* the body of an answer with status 200: not JSON, or a dict with results
Unparsable == [json |-> FALSE, results |-> <<>>]
Bodies ==
  {Unparsable, [json |-> TRUE, results |-> <<>>]}
    \cup {[json |-> TRUE, results |-> <<r>>] : r \in UserRecords}

QueryAnswers ==
  {[status |-> a, body |-> Unparsable] : a \in {"403", "error", "none"}}
    \cup {[status |-> "200", body |-> b] : b \in Bodies}

\* a request that carries the password at every stage
RequestLeaky(stage, uid, pw, answer) ==
  [stage |-> stage, uid |-> uid, pw |-> bridge.password, answer |-> answer,
   session |-> "none", token |-> ""]

\* AUTHENTIK_TOKEN, the constant of the script
AuthentikToken == ""

\* a request as the provider sees it, and how it was answered.  Each is a
\* call of requests.post or requests.get of its own with json or params and
\* the headers of __init__: it is sent on no session and carries no cookie
\* of an earlier answer.
Request(stage, uid, pw, answer) ==
  [stage |-> stage, uid |-> uid, pw |-> pw, answer |-> answer,
   session |-> "none", token |-> AuthentikToken]

\* where authenticate is after the identification request when it asks
\* again after an error
NextAfterIdentificationRetry(answer) ==
  CASE answer = "none" -> "blocked"
    [] answer = "error" -> "identification"
    [] answer # "200" -> "output"
    [] OTHER -> "password"

\* where authenticate goes on when it takes every answer for a success
NextAfterIdentificationAny(answer) ==
  CASE answer = "none" -> "blocked"
    [] answer = "error" -> "output"
    [] OTHER -> "password"

\* where authenticate is after the identification request: inside
\* requests.post for ever, in the except clause, at the return False of a
\* status other than 200, or at the password stage
NextAfterIdentification(answer) ==
  CASE answer = "none" -> "blocked"
    [] answer = "error" -> "output"
    [] answer # "200" -> "output"
    [] OTHER -> "password"

\* the password stage when it takes every answer for a success
NextAfterPasswordAny(answer) ==
  CASE answer = "none" -> "blocked"
    [] answer = "error" -> "output"
    [] OTHER -> "details"

\* after the password request: only status 200 goes on to the user's details
NextAfterPassword(answer) ==
  CASE answer = "none" -> "blocked"
    [] answer = "error" -> "output"
    [] answer = "200" -> "details"
    [] OTHER -> "output"

\* _get_user_details once the provider has answered: the user's dict, or
\* None.  g.get("name") raises on a group that is a key, not an object.
GetUserDetails(username, answer) ==
  IF answer.status = "error" THEN None
  ELSE IF answer.status # "200" THEN None
  ELSE IF ~answer.body.json THEN None
  ELSE IF answer.body.results = <<>> THEN None
  ELSE LET user == answer.body.results[1] IN
    IF \E i \in DOMAIN user.groups : user.groups[i].kind = "pk" THEN None
    ELSE [groups |-> [i \in DOMAIN user.groups |->
                        [some |-> user.groups[i].some,
                         name |-> user.groups[i].name]],
          is_active |-> user.is_active # "false"]

\* ','.join(groups)
RECURSIVE Join(_)
Join(groups) ==
  IF groups = <<>> THEN ""
  ELSE IF Len(groups) = 1 THEN groups[1].name
  ELSE groups[1].name \o "," \o Join(Tail(groups))

\* main ends with exit code 0 whatever authenticate returned
WriteReplyAccept(username, success, userData) ==
  [out |-> <<>>, code |-> 0, crashed |-> FALSE]

\* the end of main: the lines it prints, attribute = "value", and its exit
\* code.  join raises TypeError on a name that is None, and nothing catches it.
WriteReply(username, success, userData) ==
  LET welcome ==
        [attr |-> "Reply-Message", value |-> "Welcome " \o username] IN
  IF ~success
    THEN [out |-> <<[attr |-> "Reply-Message",
                     value |-> "Authentication failed"]>>,
          code |-> 1, crashed |-> FALSE]
  ELSE IF userData = None
    THEN [out |-> <<>>, code |-> 0, crashed |-> FALSE]
  ELSE IF userData.groups = <<>>
    THEN [out |-> <<welcome>>, code |-> 0, crashed |-> FALSE]
  ELSE IF \E i \in DOMAIN userData.groups : ~userData.groups[i].some
    THEN [out |-> <<welcome>>, code |-> 1, crashed |-> TRUE]
  ELSE [out |-> <<welcome,
                   [attr |-> "Class", value |-> Join(userData.groups)]>>,
        code |-> 0, crashed |-> FALSE]

BridgeFrame ==
  UNCHANGED <<file, mode, temp, hasSetter, last, nops, hist, initScript,
              envFile, flag, req, builder, race, conf>>

\* What /config/authentik_token.txt holds when configure_radius.py runs: no
\* file, or the token the Authentik configurator wrote, with or without a
\* newline after it.
TokenFiles ==
  {[exists |-> FALSE, text |-> "", newline |-> FALSE]}
    \cup {[exists |-> TRUE, text |-> t, newline |-> n] :
            t \in {"tok-1", "tok-2"}, n \in BOOLEAN}

\* RADIUSConfigurator.save_radius_token, before the RADIUS server takes
\* requests: the stripped token goes to /config/radius.env
SaveRadiusToken ==
  /\ bridge.pc = "main"
  /\ bridge.saved = "none"
  /\ \E tokenFile \in TokenFiles :
       bridge' =
         IF ~tokenFile.exists
           THEN [bridge EXCEPT !.saved = "False"]
           ELSE [bridge EXCEPT !.saved = "True",
                               !.radiusEnv = tokenFile.text]
  /\ BridgeFrame

\* main up to authenticate: read stdin to its end, take the two attributes
BridgeReadInput ==
  /\ bridge.pc = "main"
  /\ \E stream \in Streams :
       \E attributes \in {ReadAttributes(stream, EmptyFn)} :
         \E username \in {UserNameOf(attributes)},
            password \in {UserPasswordOf(attributes)} :
           bridge' =
             IF MissingInput(username, password)
               THEN [bridge EXCEPT !.pc = "exited", !.stream = stream,
                                   !.username = username,
                                   !.password = password, !.code = 1]
               ELSE [bridge EXCEPT !.pc = "identification",
                                   !.stream = stream,
                                   !.username = username,
                                   !.password = password]
  /\ BridgeFrame

\* the identification request and the test of its status
BridgeIdentification ==
  /\ bridge.pc = "identification"
  /\ \E answer \in Answers :
       bridge' =
         [bridge EXCEPT
            !.sent = Append(@, Request("identification", bridge.username, 0,
                                       answer)),
            !.pc = NextAfterIdentification(answer)]
  /\ BridgeFrame

\* the password request and the test of its status
BridgePassword ==
  /\ bridge.pc = "password"
  /\ \E answer \in Answers :
       bridge' =
         [bridge EXCEPT
            !.sent = Append(@, Request("password", "", bridge.password,
                                       answer)),
            !.pc = NextAfterPassword(answer)]
  /\ BridgeFrame

\* _get_user_details and the return True, user_data after it
BridgeUserDetails ==
  /\ bridge.pc = "details"
  /\ \E answer \in QueryAnswers :
       bridge' =
         IF answer.status = "none"
           THEN [bridge EXCEPT
                   !.sent = Append(@, Request("users", bridge.username, 0,
                                              answer)),
                   !.pc = "blocked"]
           ELSE [bridge EXCEPT
                   !.sent = Append(@, Request("users", bridge.username, 0,
                                              answer)),
                   !.success = TRUE,
                   !.userData = GetUserDetails(bridge.username, answer),
                   !.pc = "output"]
  /\ BridgeFrame

\* main after authenticate
BridgeWriteReply ==
  /\ bridge.pc = "output"
  /\ \E r \in {WriteReply(bridge.username, bridge.success, bridge.userData)} :
       bridge' = [bridge EXCEPT !.pc = "exited", !.out = r.out,
                                !.code = r.code, !.crashed = r.crashed]
  /\ BridgeFrame

NextBridge ==
  \/ SaveRadiusToken
  \/ BridgeReadInput
  \/ BridgeIdentification
  \/ BridgePassword
  \/ BridgeUserDetails
  \/ BridgeWriteReply

SpecBridge == Init /\ [][NextBridge]_vars

\* The process runs on: whenever it has a next step, it takes it.  Inside a
\* request the provider never answers it has none, for no call of requests
\* is given a timeout.
SpecBridgeLive == SpecBridge /\ WF_vars(NextBridge)

\* ------------------------------------------------------------- SpecAuthentik
\* One run of AuthentikConfigurator.run().  What the provider does with each
\* request is chosen with \E; conf.calls lists the requests run() made and how
\* each ended.
\* The provider's part in create_initial_admin: the list of users, the
\* bootstrap endpoint, the creation of the user ("201 pk": created, with its
\* key in the answer) and set_password.
AdminAnswers ==
  [users : {"403", "200 superuser", "200 none", "200 unparsable", "500",
            "error"},
   bootstrap : {"200", "201", "404", "error"},
   create : {"201 pk", "201", "400 exists", "400", "500", "error"},
   setPassword : {"200", "500", "error"}]

\* a create_initial_admin that gives up when the user cannot be created
CreateInitialAdminStrict(tempPassword, r) ==
  IF ~tempPassword THEN [ok |-> FALSE, calls |-> <<>>]
  ELSE [ok |-> r.users \in {"403", "200 superuser"},
        calls |-> <<<<"GET core/users", r.users>>>>]

\* create_initial_admin: what it returns and the requests it made
CreateInitialAdmin(tempPassword, r) ==
  LET users == <<"GET core/users", r.users>>
      bootstrap == <<"POST root/config", r.bootstrap>>
      create == <<"POST core/users", r.create>>
      setPassword == <<"POST set_password", r.setPassword>>
  IN IF ~tempPassword THEN [ok |-> FALSE, calls |-> <<>>]
     ELSE IF r.users \in {"403", "200 superuser"}
       THEN [ok |-> TRUE, calls |-> <<users>>]
     ELSE IF r.users \in {"200 unparsable", "error"}
       THEN [ok |-> TRUE, calls |-> <<users>>]
     ELSE IF r.bootstrap \in {"200", "201"}
       THEN [ok |-> TRUE, calls |-> <<users, bootstrap>>]
     ELSE IF r.create = "201 pk"
       THEN [ok |-> TRUE, calls |-> <<users, bootstrap, create, setPassword>>]
     ELSE [ok |-> TRUE, calls |-> <<users, bootstrap, create>>]

\* The provider's part in get_admin_token: the login, and the creation of the
\* token with the key in its answer ("" is no key or an empty one).
TokenAnswers ==
  [login : {"200", "403", "error"}, create : {"201", "400", "error"},
   key : {"tok-1", "tok-2", ""}]

\* get_admin_token: the token ("" is None or the empty string) and the
\* requests it made
GetAdminToken(r) ==
  LET login == <<"POST flows/executor", r.login>>
      create == <<"POST core/tokens", r.create>>
  IN IF r.login # "200" THEN [token |-> "", calls |-> <<login>>]
     ELSE IF r.create = "201"
       THEN [token |-> r.key, calls |-> <<login, create>>]
     ELSE [token |-> "", calls |-> <<login, create>>]

ConfFrame ==
  UNCHANGED <<file, mode, temp, hasSetter, last, nops, hist, initScript,
              envFile, flag, req, builder, bridge, race>>

\* wait_for_authentik: the API answers 200 or 401 within the attempts, or not
ConfWaitForAuthentik ==
  /\ conf.pc = "wait"
  /\ \E ready \in BOOLEAN :
       conf' =
         IF ready
           THEN [conf EXCEPT !.pc = "admin",
                             !.calls = Append(@, <<"GET /", "ready">>)]
           ELSE [conf EXCEPT !.pc = "done", !.result = "False",
                             !.calls = Append(@, <<"GET /", "never">>)]
  /\ ConfFrame

\* create_initial_admin, with TEMP_ADMIN_PASSWORD in the environment or not
ConfCreateInitialAdmin ==
  /\ conf.pc = "admin"
  /\ \E tempPassword \in BOOLEAN, r \in AdminAnswers :
       \E a \in {CreateInitialAdmin(tempPassword, r)} :
         conf' =
           IF a.ok
             THEN [conf EXCEPT !.pc = "token", !.tempPassword = tempPassword,
                               !.admin = "True", !.calls = @ \o a.calls]
             ELSE [conf EXCEPT !.pc = "done", !.tempPassword = tempPassword,
                               !.admin = "False", !.result = "False",
                               !.calls = @ \o a.calls]
  /\ ConfFrame

\* self.token = self.get_admin_token() and the test of it
ConfGetAdminToken ==
  /\ conf.pc = "token"
  /\ \E r \in TokenAnswers :
       \E a \in {GetAdminToken(r)} :
         conf' =
           IF a.token = ""
             THEN [conf EXCEPT !.pc = "done", !.result = "False",
                               !.calls = @ \o a.calls]
             ELSE [conf EXCEPT !.pc = "save", !.token = a.token,
                               !.calls = @ \o a.calls]
  /\ ConfFrame

\* the write of /config/authentik_token.txt: written, not opened, or opened
\* and left empty; an error of it ends run() with the exception
ConfSaveToken ==
  /\ conf.pc = "save"
  /\ \E io \in SaveOutcomes :
       conf' =
         CASE io = "ok" ->
                [conf EXCEPT !.pc = "ldap", !.tokenFile = conf.token]
           [] io = "unchanged" ->
                [conf EXCEPT !.pc = "done", !.result = "OSError"]
           [] OTHER ->
                [conf EXCEPT !.pc = "done", !.result = "OSError",
                             !.tokenFile = ""]
  /\ ConfFrame

\* configure_ldap_source: True on 201, False on another status or an error
ConfLdapSource ==
  /\ conf.pc = "ldap"
  /\ \E answer \in {"201", "400", "error"} :
       conf' = [conf EXCEPT
                  !.pc = "radius",
                  !.ldap = IF answer = "201" THEN "True" ELSE "False",
                  !.calls = Append(@, <<"POST sources/ldap", answer>>)]
  /\ ConfFrame

\* configure_radius_provider, the provider and then the application, and the
\* return True of run()
ConfRadiusProvider ==
  /\ conf.pc = "radius"
  /\ \E provider \in {"201", "400", "error"},
        application \in {"201", "400", "error"} :
       conf' =
         IF provider = "201"
           THEN [conf EXCEPT
                   !.pc = "done", !.result = "True",
                   !.radius = IF application = "201" THEN "True" ELSE "False",
                   !.calls = @ \o <<<<"POST providers/radius", provider>>,
                                    <<"POST core/applications", application>>>>]
           ELSE [conf EXCEPT
                   !.pc = "done", !.result = "True", !.radius = "False",
                   !.calls = Append(@, <<"POST providers/radius", provider>>)]
  /\ ConfFrame

NextAuthentik ==
  \/ ConfWaitForAuthentik
  \/ ConfCreateInitialAdmin
  \/ ConfGetAdminToken
  \/ ConfSaveToken
  \/ ConfLdapSource
  \/ ConfRadiusProvider

SpecAuthentik == Init /\ [][NextAuthentik]_vars

\* ------------------------------------------------------------- properties
\* Argon2PasswordHasher.verify_password(password, hash)
HasherVerifyPassword(p, h) ==
  LET r == HasherVerify(h, p) IN IF r = "Mismatch" THEN "False" ELSE r

\* The strings a file holds: of a flat file, and of the configuration file.
FlatStrings(f) ==
  IF f.st = "ok" THEN {f.top[x] : x \in DOMAIN f.top} ELSE {}
ConfigStrings(f) ==
  IF f.st = "ok"
  THEN UNION {{f.top[x].d[y] : y \in DOMAIN f.top[x].d} : x \in DOMAIN f.top}
  ELSE {}
IsPlaintext(v) == v.kind = "text" /\ v.body \in Plaintexts

\* C1: in any sequence of set_temporary_password and get_temporary_password
\* calls, a get returns the plaintext most recently set for its key and not
\* yet taken, returns None when there is none, and leaves nothing to take.
C1_TakeOnceAfterSet ==
  [][last'.op = "get_temporary_password" =>
       LET k == <<last'.svc, last'.usr>>
       IN /\ last'.pw = StagedOf(staged, k)
          /\ last'.out = IF StagedOf(staged, k) = 0 THEN "None" ELSE "value"
          /\ TakeResult(temp', k[1], k[2]) = 0]_vars

\* a get that returns None for a key that was set and taken before
C1_SecondTakeEmpty ==
  /\ last.op = "get_temporary_password"
  /\ last.out = "None"
  /\ <<last.svc, last.usr>> \in DOMAIN staged

\* C2: two callers of get_temporary_password for the key of the one set that
\* was made, once both have ended: one got the plaintext, the other None, and
\* neither raised.
C2_ExactlyOneTaker ==
  (/\ last.op = "set_temporary_password"
   /\ \A t \in Threads : pc[t] = "done" /\ rkey[t] = <<last.svc, last.usr>>)
  => \E t \in Threads :
       /\ rout[t] = "value"
       /\ rlocal[t] = last.pw
       /\ \A o \in Threads \ {t} : rout[o] = "None"

\* C3: a call that hands cached plaintexts to its caller leaves none of them
\* in the cache.
C3_HandedIsRemoved ==
  \A e \in last.handed : ~CacheHas(temp, e[1], e[2])

\* C4: no file of /config holds the plaintext of a password of the form.
C4_NoPlaintextOnDisk ==
  \A v \in ConfigStrings(file) \cup FlatStrings(initScript)
           \cup FlatStrings(envFile) : ~IsPlaintext(v)

\* C5: when initialize_service_password(s, u, p) has returned, on a
\* repository that has the cache, verify_password(s, u, p) is True, and of
\* 1..MaxTakes get_temporary_password(s, u) calls in a row the first returns p
\* and every other returns None.
C5_InitializeThenVerifyAndTakeOnce ==
  (last.op = "initialize_service_password" /\ last.out = "ok" /\ hasSetter)
  => /\ VerifyPassword(file, last.svc, last.usr, last.pw) = "True"
     /\ \A n \in 1..MaxTakes :
          LET takes == TakeReplay(temp, last.svc, last.usr, n)
          IN /\ takes[1] = last.pw
             /\ \A i \in 2..n : takes[i] = 0

\* an initialize that has returned, for a key whose cache entry it replaced
C5_Initialized ==
  /\ last.op = "initialize_service_password"
  /\ last.out = "ok"
  /\ hasSetter
  /\ nops = MaxOps
  /\ CacheHas(temp, last.svc, last.usr)

\* C6 as stated: in every state, a cache entry that initialize placed has in
\* the file a hash that verifies it.
C6_PlacedAlwaysVerifies ==
  \A k \in placed :
    CacheHas(temp, k[1], k[2])
    => VerifyPassword(file, k[1], k[2], temp[k[1]][k[2]]) = "True"

\* C6: in the state initialize_service_password(s, u, p) returns in: when
\* it raised, the cache is as it was; when it returned, verify_password(s, u,
\* p) is True, and the cache holds p for (s, u) if the repository has the
\* setter and is as it was if not.
C6_StoreBeforeSet ==
  [][last'.op = "initialize_service_password" =>
       /\ last'.out # "ok" => temp' = temp
       /\ last'.out = "ok" =>
            /\ VerifyPassword(file', last'.svc, last'.usr, last'.pw) = "True"
            /\ IF hasSetter
               THEN TakeResult(temp', last'.svc, last'.usr) = last'.pw
               ELSE temp' = temp]_vars

\* an initialize whose store raised, with an entry staged before it
C6_StoreFailed ==
  /\ last.op = "initialize_service_password"
  /\ last.out = "OSError"
  /\ hasSetter
  /\ temp # EmptyFn

\* C7: once update_service_password(s, u, p) has attempted its write,
\* get_temporary_password(s, u) has nothing to return.
C7_StaleEntryInvalidated ==
  (last.op = "update_service_password" /\ last.out \in {"ok", "OSError"})
  => ~CacheHas(temp, last.svc, last.usr)

\* C8: when update_service_password(s, u, p) has returned,
\* verify_password(s, u, p) is True, verify_password(s, u, q) is False for
\* every other q, and the next get_temporary_password(s, u) returns p.
C8_RotateDualWrite ==
  (last.op = "update_service_password" /\ last.out = "ok")
  => /\ VerifyPassword(file, last.svc, last.usr, last.pw) = "True"
     /\ \A q \in Plaintexts \ {last.pw} :
          VerifyPassword(file, last.svc, last.usr, q) = "False"
     /\ TakeResult(temp, last.svc, last.usr) = last.pw

\* C9: the file a store_password(s, u, h) returned from holds h as the record
\* of (s, u), and a second store_password(s, u, h) on it returns and leaves the
\* file as the first one left it.
C9_StoreIdempotentUpsert ==
  (last.op = "store_password" /\ last.out = "ok")
  => /\ HasRecord(file, last.svc, last.usr)
     /\ Record(file, last.svc, last.usr) = last.h
     /\ StorePassword(file, last.svc, last.usr, last.h, "ok")
          = [file |-> file, out |-> "ok"]

\* a second store_password that returned, on a file that had a section
C9_Stored ==
  /\ last.op = "store_password"
  /\ last.out = "ok"
  /\ nops = MaxOps
  /\ \E u \in {"authentik", "admin", "readonly"} \ {last.usr} :
       HasRecord(file, last.svc, u)

\* C10: on a file that parses, verify_password(s, u, p) returns False when
\* the file has no record for (s, u), and what the hasher's verify_password
\* gives on the record and p when it has.
C10_VerifyDelegates ==
  (last.op = "verify_password" /\ file.st = "ok")
  => last.out = IF HasRecord(file, last.svc, last.usr)
                THEN HasherVerifyPassword(last.pw,
                                          Record(file, last.svc, last.usr))
                ELSE "False"

\* C11: verify_password on a file that parses and has a record for (s, u)
\* returns True or False, whatever string the record is.
C11_VerifyNeverRaises ==
  (/\ last.op = "verify_password"
   /\ HasRecord(file, last.svc, last.usr))
  => last.out \in {"True", "False"}

C13_WriteIsAtomic == file.st # "corrupt"

\* C14: two store_password calls for different keys that both returned,
\* however their steps interleaved, leave both records in the file, and no
\* verify_password in between found the file unparsable.
C14_NoLostUpdate ==
  /\ (/\ \A t \in Threads : pc[t] = "done" /\ rout[t] = "ok"
      /\ rkey["t1"] # rkey["t2"])
     => \A t \in Threads :
          /\ HasRecord(file, rkey[t][1], rkey[t][2])
          /\ Record(file, rkey[t][1], rkey[t][2]) = rlocal[t].h
  /\ last.op = "verify_password" => last.out # "JSONDecodeError"

\* C15: whenever the file holds a hash record, between the steps of
\* _save_config too, its permissions are 0o600.
C15_OwnerOnlyPermissions ==
  (\E k \in Keys : HasRecord(file, k[1], k[2])) => mode = "0600"

\* C16: on an unparsable file every call ends in an error and leaves the file
\* and the initialized flag as they were.
C16_CorruptStoreIsFatal ==
  [][file.st = "corrupt" =>
       /\ file' = file
       /\ flag' = flag
       /\ last'.out \notin {"ok", "200", "True", "False"}]_vars

\* The keys initialize stores records for.
AppKeySet == {AppKeys[i] : i \in DOMAIN AppKeys}

\* C17: a record the file has for a key is there after every call that leaves
\* a file that parses.
C17_RecordsNeverDeleted ==
  [][file'.st = "ok" =>
       \A k \in AppKeySet :
         HasRecord(file, k[1], k[2]) => HasRecord(file', k[1], k[2])]_vars

\* The plaintext secrets initialize passes to the setters of the builder.
BuilderSecrets(form) ==
  {form.admin_password, form.db_password, form.ldap_admin_password,
   form.ldap_readonly_password, RadiusSecret, SecretKey}

\* C18: the configuration initialize built and saved holds none of the
\* secrets the setters were given as text.
C18_NoPlaintextInAggregate ==
  (last.op = "api_initialize" /\ file.st = "ok")
  => \A v \in ConfigStrings(file) :
       ~(v.kind = "text" /\ v.body \in BuilderSecrets(req.form))

BuilderSetters ==
  {"set_admin_credentials", "set_database_credentials",
   "set_ldap_configuration", "set_radius_configuration", "set_security_keys"}

\* C19: a setter called after build() is rejected and leaves the builder's
\* configuration as build() returned it.
C19_BuilderSingleUse ==
  [][(builder.built /\ last'.op \in BuilderSetters) =>
       /\ builder'.config = builder.config
       /\ last'.out # "ok"]_vars

\* C20: when initialize has answered 200, every field of the configuration
\* it built is in the file with the value build() returned it with.
C20_AggregateImmutable ==
  (last.op = "api_initialize" /\ last.out = "200")
  => \A agg \in {BuildConfiguration(req.form, req.sb)} :
       /\ file.st = "ok"
       /\ \A x \in DOMAIN agg :
            /\ x \in DOMAIN file.top
            /\ file.top[x].kind = agg[x].kind
            /\ \A y \in DOMAIN agg[x].d :
                 /\ y \in DOMAIN file.top[x].d
                 /\ file.top[x].d[y] = agg[x].d[y]

\* the value stdin gives for key: that of the last line with the key, and it
\* is not empty
Given(key) ==
  \E i \in DOMAIN bridge.stream :
    /\ bridge.stream[i].eq
    /\ bridge.stream[i].key = key
    /\ \A j \in DOMAIN bridge.stream :
         (j > i /\ bridge.stream[j].eq) => bridge.stream[j].key # key
    /\ bridge.stream[i].name # "" \/ bridge.stream[i].pw # 0

\* the requests of one stage the provider saw in this run
Sent(stage) == {i \in DOMAIN bridge.sent : bridge.sent[i].stage = stage}

\* the answers the requests of one stage got
Answered(stage) == {bridge.sent[i].answer : i \in Sent(stage)}

\* C21: once stdin is read to its end without a non-empty User-Name or
\* without a non-empty User-Password, the bridge has exited with a non-zero
\* code and has sent no request to the provider.
C21_MissingInputNoRequest ==
  (bridge.pc # "main" /\ ~(Given("User-Name") /\ Given("User-Password")))
  => /\ bridge.pc = "exited"
     /\ bridge.sent = <<>>
     /\ bridge.code > 0

\* stdin held only User-Name=jdoe: exit code 1, nothing sent
C21_OnlyUserName ==
  /\ bridge.pc = "exited"
  /\ Len(bridge.stream) = 1
  /\ bridge.stream[1].key = "User-Name"
  /\ bridge.stream[1].name = "jdoe"
  /\ bridge.sent = <<>>
  /\ bridge.code = 1

\* the lines of one attribute on stdout
Written(attr) == {i \in DOMAIN bridge.out : bridge.out[i].attr = attr}

\* the user record the user query got back, if it got one
QueriedUsers ==
  {bridge.sent[i].answer.body.results[1] :
     i \in {j \in Sent("users") :
              /\ bridge.sent[j].answer.status = "200"
              /\ bridge.sent[j].answer.body.json
              /\ bridge.sent[j].answer.body.results # <<>>}}

\* C22: a run whose user query returned a record with is_active false ends
\* with a non-zero exit code and without a Class line.
C22_InactiveRejected ==
  (bridge.pc = "exited" /\ \E u \in QueriedUsers : u.is_active = "false")
  => /\ bridge.code > 0
     /\ Written("Class") = {}

\* C23: a run whose two flow stages were answered 200 and whose user query
\* brought no user record ends with a non-zero exit code.
C23_NoRecordRejected ==
  (/\ bridge.pc = "exited"
   /\ Answered("identification") = {"200"}
   /\ Answered("password") = {"200"}
   /\ Sent("users") # {}
   /\ QueriedUsers = {})
  => bridge.code > 0

\* C24: the exit code is 0 only when the identification request and, after
\* it, the password request were both answered 200 in this run; a run that
\* ends with either stage answered otherwise, or not sent, ends non-zero.
C24_ExitZeroOnlyAfterBothStages ==
  /\ bridge.code = 0 =>
       /\ bridge.pc = "exited"
       /\ Len(bridge.sent) >= 2
       /\ bridge.sent[1].stage = "identification"
       /\ bridge.sent[1].answer = "200"
       /\ bridge.sent[2].stage = "password"
       /\ bridge.sent[2].answer = "200"
  /\ (/\ bridge.pc = "exited"
      /\ \/ Answered("identification") # {"200"}
         \/ Answered("password") # {"200"})
     => bridge.code > 0

\* a run that ended 0 after two stages answered 200
C24_AcceptedAfterBothStages ==
  /\ bridge.pc = "exited"
  /\ bridge.code = 0
  /\ Answered("identification") = {"200"}
  /\ Answered("password") = {"200"}

\* C25: a run that ends with exit code 0 has written the line Reply-Message
\* with Welcome and the user name, and the line Class with the names of the
\* queried user's groups, joined by commas in the order of the answer.
C25_AcceptWritesReplyAndClass ==
  bridge.code = 0
  => /\ \E i \in Written("Reply-Message") :
          bridge.out[i].value = "Welcome " \o bridge.username
     /\ \E i \in Written("Class") :
          \E u \in QueriedUsers : bridge.out[i].value = Join(u.groups)

\* C26: once the identification request or the password request was answered
\* with a status other than 200, the run sends nothing more and ends with a
\* Reply-Message line, no Class line and a non-zero exit code.
C26_StageFailureRejected ==
  ("403" \in Answered("identification") \cup Answered("password"))
  => /\ bridge.pc \in {"output", "exited"}
     /\ Sent("users") = {}
     /\ bridge.pc = "exited" =>
          /\ Written("Reply-Message") # {}
          /\ Written("Class") = {}
          /\ bridge.code > 0

\* the password request answered 403 and the run ended: one line, exit code 1
C26_PasswordRefused ==
  /\ bridge.pc = "exited"
  /\ Answered("identification") = {"200"}
  /\ Answered("password") = {"403"}
  /\ bridge.out = <<[attr |-> "Reply-Message",
                     value |-> "Authentication failed"]>>
  /\ bridge.code = 1

\* C27: every run of the bridge ends with an exit code, whether the provider
\* answers or not.
C27_EventuallyExits == <>(bridge.pc = "exited" /\ bridge.code >= 0)

\* C28: a run in which a request raised, or the body of the user query's
\* answer could not be parsed, ends with a non-zero exit code and without an
\* uncaught exception.
C28_ErrorsRejected ==
  (/\ bridge.pc = "exited"
   /\ \/ "error" \in Answered("identification") \cup Answered("password")
      \/ \E i \in Sent("users") :
           \/ bridge.sent[i].answer.status = "error"
           \/ /\ bridge.sent[i].answer.status = "200"
              /\ ~bridge.sent[i].answer.body.json)
  => /\ bridge.code > 0
     /\ ~bridge.crashed

\* C29: in one run the provider sees at most one identification request, at
\* most one password request and at most one user query.
C29_SingleAttemptPerStage ==
  \A stage \in {"identification", "password", "users"} :
    Cardinality(Sent(stage)) <= 1

\* the identification request raised and the run ended after that one request
C29_ErrorNotRetried ==
  /\ bridge.pc = "exited"
  /\ Len(bridge.sent) = 1
  /\ bridge.sent[1].stage = "identification"
  /\ bridge.sent[1].answer = "error"

\* C30: after an identification request answered with a status other than
\* 200, the run has sent no password request and no user query, and no
\* request of it carries the password.
C30_IdentificationFailureStops ==
  ("403" \in Answered("identification"))
  => /\ Sent("password") = {}
     /\ Sent("users") = {}
     /\ \A i \in DOMAIN bridge.sent : bridge.sent[i].pw # bridge.password
     /\ bridge.pc \in {"output", "exited"}

\* identification answered 403 and the run ended Rejected with the password
\* it read never sent
C30_RefusedAtIdentification ==
  /\ bridge.pc = "exited"
  /\ bridge.password \in Plaintexts
  /\ Answered("identification") = {"403"}
  /\ Len(bridge.sent) = 1
  /\ bridge.code = 1

\* C31: the requests of a run come in the order identification, password,
\* user query: the identification request carries the user name and no
\* password, the password request follows an identification answered 200,
\* and the user query follows a password request answered 200.
C31_StagesInOrder ==
  \A i \in DOMAIN bridge.sent :
    /\ bridge.sent[i].stage = "identification" =>
         /\ i = 1
         /\ bridge.sent[i].uid = bridge.username
         /\ bridge.sent[i].pw = 0
    /\ bridge.sent[i].stage = "password" =>
         /\ i = 2
         /\ bridge.sent[1].stage = "identification"
         /\ bridge.sent[1].answer = "200"
    /\ bridge.sent[i].stage = "users" =>
         /\ i = 3
         /\ bridge.sent[2].stage = "password"
         /\ bridge.sent[2].answer = "200"

\* a run that sent all three requests and ended
C31_AllThreeSent ==
  /\ bridge.pc = "exited"
  /\ Len(bridge.sent) = 3
  /\ bridge.sent[1].pw = 0
  /\ bridge.sent[2].pw = bridge.password
  /\ bridge.sent[3].stage = "users"

\* C32: the password request of a run is sent on the flow context its
\* identification request opened for the user it names.
C32_PasswordOnIdentifiedFlow ==
  \A i \in Sent("password") :
    /\ bridge.sent[1].stage = "identification"
    /\ bridge.sent[i].session = bridge.sent[1].uid

\* C33: once the bootstrap has written a token to radius.env, every request
\* of the bridge carries that token.
C33_RequestsCarrySuppliedToken ==
  bridge.saved = "True"
  => \A i \in DOMAIN bridge.sent : bridge.sent[i].token = bridge.radiusEnv

\* C34: update_password leaves the file and the cache as store_password with
\* the same arguments leaves them.
C34_UpdateSameAsStore ==
  [][(last'.op = "update_password" /\ last'.out = "ok")
     => \A r \in {StorePassword(file, last'.svc, last'.usr, last'.h, "ok")} :
          /\ file' = r.file
          /\ temp' = temp]_vars

\* C35: each initialize_service_password and update_service_password call
\* leaves an INFO record with its service and user name, and no record of any
\* call holds the plaintext or the hash the call was given.
C35_ServiceCallsLogged ==
  /\ last.op \in {"initialize_service_password", "update_service_password"}
     => \E r \in Logged(last, hasSetter) :
          /\ r.level = "INFO"
          /\ r.message[2] = last.svc
          /\ r.message[4] = last.usr
  /\ \A r \in Logged(last, hasSetter) :
       \A i \in {2, 4} : r.message[i] \in {last.svc, last.usr}

\* C36: store_password, update_password, set_temporary_password and
\* get_temporary_password for one key leave the record and the cached
\* plaintext of every other key as they were, and verify_password changes
\* neither the file nor the cache.
C36_OtherKeysUntouched ==
  [][/\ last'.op \in {"store_password", "update_password",
                      "set_temporary_password", "get_temporary_password"}
        => \A k \in Keys \ {<<last'.svc, last'.usr>>} :
             /\ HasRecord(file', k[1], k[2]) = HasRecord(file, k[1], k[2])
             /\ HasRecord(file, k[1], k[2])
                  => Record(file', k[1], k[2]) = Record(file, k[1], k[2])
             /\ TakeResult(temp', k[1], k[2]) = TakeResult(temp, k[1], k[2])
     /\ last'.op = "verify_password" => file' = file /\ temp' = temp]_vars

\* C37: of the requests to /api/initialize, at most one is answered 200.
C37_AtMostOneInitialize ==
  Cardinality({t \in Threads : rout[t] = "200"}) <= 1

\* C38: while the flag file exists, the configuration file is the saved
\* configuration with initialized true, and it holds for each of the four
\* bootstrap credentials a record that verifies the password of the form.
C38_FlagMeansInitialized ==
  flag
  => /\ file.st = "ok"
     /\ "initialized" \in DOMAIN file.top
     /\ file.top["initialized"] = BoolVal(TRUE)
     /\ \A i \in 1..4 :
          VerifyPassword(file, AppKeys[i][1], AppKeys[i][2],
                         InitPassword(req.form, i)) = "True"

====
